---- MODULE Spec2Model ----
(***************************************************************************)
(* Ingestion orchestrator of DiogoAngelim/financial-data.                  *)
(*                                                                         *)
(* Four runners are modelled, one per script family of the repository:     *)
(*   "importer" : importer.mjs / unnamed/part_000  (sequential, classified *)
(*                statuses, randomised backoff)                            *)
(*   "all"      : fetch_stocks_all_exchanges.mjs   (pLimit(5), fetchData   *)
(*                rethrows everything but a 404)                           *)
(*   "rewrite"  : unnamed/part_001 lines 1-149     (pLimit(5), crypto      *)
(*                "-USD" rewrite, catalog written inside the attempt)      *)
(*   "plain"    : unnamed/part_001 lines 151-265   (pLimit(5), no rewrite) *)
(*                                                                         *)
(* One step of the model is one run-to-completion slice of the JavaScript  *)
(* event loop: the code between two awaits.                                *)
(*                                                                         *)
(* Spec and SpecWide run one exchange; SpecDriver runs main over a list of *)
(* exchanges; SpecTwice runs one exchange twice against a provider with    *)
(* one fixed answer per identifier.                                        *)
(***************************************************************************)
EXTENDS Integers, Sequences, FiniteSets, TLC

VARIABLES
  variant,    \* which runner executes
  exchange,   \* the exchange code handed to the runner
  file,       \* stocks_list_<exchange>.json: [exists, valid, recs]
  catalog0,   \* the records as parsed at the start of the run (history)
  assets,     \* the runner's `assets` variable
  arts,       \* <exchange>/<symbol>.csv: symbol -> NoFile or a content
  arts0,      \* the artifacts on disk when the run began (history)
  phase,      \* "init", "running", "returned", "crashed", "exit"
  pc,         \* per record: position of its attempt
  attempt,    \* per record: the loop variable `attempt`
  sym,        \* per record: the attempt's `symbol` variable
  status,     \* per record: the attempt's `status` (or returned status)
  last,       \* per record: status of the latest fetchData call (history)
  calls,      \* per record: fetchData calls issued for the record's symbol (history)
  rwCalls,    \* per record: fetchData calls issued for the rewritten symbol (history)
  slept,      \* per record: ms of backoff started since the latest fetchData returned
  nf,         \* per record: its symbol was classified '404' and no rewrite succeeded
  nd,         \* per record: a fetch of it was classified 'noData' (history)
  wrote,      \* per record: its attempt wrote an artifact (history)
  results,    \* the runner's `results`
  writes,     \* number of writes of the catalog file in the run (history)
  budget,     \* non-success provider answers still allowed (model bound)
  waits,      \* per record: backoff waits its attempt has started (history)
  todo,       \* main(): the exchanges of EXCHANGES still to come
  disk,       \* catalog file and artifacts of each exchange while it is not the
              \* current one (those of the current one are `file` and `arts`)
  log,        \* the runs main() has completed: exchange, file left, results (history)
  oracle      \* the provider: free, or one fixed answer per identifier;
              \* `metered`: its non-success answers use up `budget`

vars == <<variant, exchange, file, catalog0, assets, arts, arts0, phase, pc, attempt,
          sym, status, last, calls, rwCalls, slept, nf, nd, wrote, results,
          writes, budget, waits, todo, disk, log, oracle>>

\* what no step of a runner changes
drv == <<todo, disk, log, oracle>>

----------------------------------------------------------------------------
(* Bounds of the model *)

\* longest catalog of the narrow specification
MaxCatalog == 2
\* non-success provider answers allowed in a run of the narrow specification
NarrowFaults == 4
\* non-success provider answers allowed in a run of the wide specification
WideFaults == 1
\* length of the driver's list of exchanges
MaxExchanges == 2
\* non-success provider answers allowed in a run of the driver
DriverFaults == 3

(* Program constants *)

Concurrency == 5
MaxAttempts == 3
RetryDelayMs == 2000
RateLimitBaseMs == 5000
RateLimitSpanMs == 5000
ErrorBaseMs == 2000
ErrorSpanMs == 2000

----------------------------------------------------------------------------
(* Symbols, records, provider answers *)

USD == "-USD"
NoFile == [of |-> <<>>, fresh |-> FALSE]
Missing == [exists |-> FALSE, valid |-> FALSE, recs |-> <<>>]
Stored(recs) == [exists |-> TRUE, valid |-> TRUE, recs |-> recs]
\* a file JSON.parse rejects
Malformed == [exists |-> TRUE, valid |-> FALSE, recs |-> <<>>]

Bases == <<"A", "B", "C", "D", "E", "F", "G", "H">>

\* a symbol is a sequence of tokens; "-USD" is one token
EndsWithUSD(s) == Len(s) > 0 /\ s[Len(s)] = USD
AppendUSD(s) == Append(s, USD)

Variants == {"importer", "all", "rewrite", "plain"}
\* the exchange code changes the behaviour of the rewriting runner only
Runs == {<<"importer", "AU">>, <<"all", "AU">>, <<"plain", "AU">>,
         <<"rewrite", "AU">>, <<"rewrite", "crypto">>}

\* Math.random(), in thousandths: 0 <= r < 1
Rand == {0, 999}
Scaled(base, span, r) == base + (span * r) \div 1000

\* what yahooFinance.chart can do: resolve with some quotes (possibly none),
\* or reject with a message and possibly an HTTP status (0: no response)
Phrases == {"No data found", "Too Many Requests"}
Failure(msg, code) == [ok |-> FALSE, msg |-> msg, code |-> code]
Raw == [ok : {TRUE}, quotes : {0, 2}]
         \cup {Failure({}, 0), Failure({}, 404), Failure({}, 429), Failure({}, 500),
               Failure({"No data found"}, 0), Failure({"Too Many Requests"}, 0),
               Failure({"No data found"}, 429)}
IsFault(raw) == ~(raw.ok /\ raw.quotes > 0)


----------------------------------------------------------------------------
(* fetchData: classification of the provider's answer, and the artifact *)

Includes(msg, phrase) == phrase \in msg

\* importer.mjs and unnamed/part_000
ClassifyImporter(raw) ==
  IF raw.ok
    THEN (IF raw.quotes = 0 THEN "noData" ELSE "success")
    ELSE IF Includes(raw.msg, "No data found") \/ raw.code = 404 THEN "404"
    ELSE IF Includes(raw.msg, "Too Many Requests") \/ raw.code = 429 THEN "rateLimited"
    ELSE "error"

\* fetch_stocks_all_exchanges.mjs: anything but an HTTP 404 is rethrown
ClassifyAll(raw) ==
  IF raw.ok
    THEN (IF raw.quotes = 0 THEN "noData" ELSE "success")
    ELSE IF raw.code = 404 THEN "404"
    ELSE "thrown"

\* unnamed/part_001, first script
ClassifyRewrite(raw) ==
  IF raw.ok
    THEN (IF raw.quotes = 0 THEN "noData" ELSE "success")
    ELSE IF Includes(raw.msg, "No data found") \/ raw.code = 404 THEN "404"
    ELSE "error"

\* unnamed/part_001, second script
ClassifyPlain(raw) ==
  IF raw.ok
    THEN (IF raw.quotes = 0 THEN "noData" ELSE "success")
    ELSE IF Includes(raw.msg, "No data found") \/ raw.code = 404 THEN "404"
    ELSE "error"

Classify(v, raw) ==
  CASE v = "importer" -> ClassifyImporter(raw)
    [] v = "all"      -> ClassifyAll(raw)
    [] v = "rewrite"  -> ClassifyRewrite(raw)
    [] v = "plain"    -> ClassifyPlain(raw)

\* variant of WriteArtifact that writes the file before looking at the result
WriteArtifactUnchecked(store, s, st) ==
  IF st \in {"success", "noData"}
    THEN [store EXCEPT ![s] = [of |-> s, fresh |-> TRUE]] ELSE store

\* fs.writeFileSync(<symbol>.csv) happens on 'success' only
WriteArtifact(store, s, st) ==
  IF st = "success" THEN [store EXCEPT ![s] = [of |-> s, fresh |-> TRUE]] ELSE store

\* fs.existsSync(oldPath) && fs.renameSync(oldPath, newPath)
RenameArtifact(store, old, new) ==
  IF store[old] # NoFile
    THEN [store EXCEPT ![new] = store[old], ![old] = NoFile]
    ELSE store


----------------------------------------------------------------------------
(* Catalogs and initial states *)

NoDup(ss) == \A j, k \in DOMAIN ss : ss[j] = ss[k] => j = k
SymbolsOf(recs) == {recs[k].symbol : k \in DOMAIN recs}

\* a record of the catalog: the symbol and its opaque metadata
MkCatalog(ss) == [k \in 1..Len(ss) |-> [symbol |-> ss[k], meta |-> k]]

\* every artifact name a run on these records can touch
Names(recs) ==
  SymbolsOf(recs) \cup {AppendUSD(s) : s \in {t \in SymbolsOf(recs) : ~EndsWithUSD(t)}}

\* the narrow catalogs: up to MaxCatalog of these symbols, in this order
NarrowPool == <<<<"A">>, <<"A", USD>>, <<"B">>>>
Pick(ks) == [n \in 1..Cardinality(ks) |->
               NarrowPool[CHOOSE k \in ks : Cardinality({j \in ks : j < k}) = n - 1]]
NarrowLists ==
  {Pick(ks) : ks \in {t \in SUBSET DOMAIN NarrowPool : Cardinality(t) <= MaxCatalog}}
WideList == [k \in 1..(Concurrency + 1) |-> <<Bases[k]>>]


\* the provider answers anything, any time
FreeOracle == [fixed |-> FALSE, of |-> <<>>, raws |-> Raw, metered |-> TRUE]

\* an output directory without artifacts
EmptyStore(recs) == [s \in Names(recs) |-> NoFile]

\* the state of a run before processExchange has done anything
FreshRun ==
  /\ arts0 = arts
  /\ catalog0 = <<>>
  /\ assets = <<>>
  /\ phase = "init"
  /\ pc = <<>>
  /\ attempt = <<>>
  /\ sym = <<>>
  /\ status = <<>>
  /\ last = <<>>
  /\ calls = <<>>
  /\ rwCalls = <<>>
  /\ slept = <<>>
  /\ nf = <<>>
  /\ nd = <<>>
  /\ wrote = <<>>
  /\ results = <<>>
  /\ writes = 0
  /\ waits = <<>>
  /\ log = <<>>

\* one exchange, a free provider
\* `stocked`: an earlier run may have left artifacts in the output directory
InitWith(lists, allowed, stocked) ==
  /\ \E run \in Runs : variant = run[1] /\ exchange = run[2]
  /\ \E ss \in lists :
        /\ file \in {Missing, Stored(MkCatalog(ss))}
        \* an earlier run left artifacts for the first symbols of the list
        /\ \E k \in 0..(IF stocked THEN Len(ss) ELSE 0) :
             arts = [s \in Names(MkCatalog(ss)) |->
                       IF s \in {ss[j] : j \in 1..k}
                         THEN [of |-> s, fresh |-> FALSE] ELSE NoFile]
        /\ budget = allowed
  /\ todo = <<>>
  /\ disk = <<>>
  /\ oracle = FreeOracle
  /\ FreshRun

Init == InitWith(NarrowLists, NarrowFaults, TRUE)
InitWide == InitWith({WideList}, WideFaults, FALSE)

\* one answer of each class: a series, an empty series, HTTP 404, HTTP 500
Sample == {[ok |-> TRUE, quotes |-> 2], [ok |-> TRUE, quotes |-> 0],
           Failure({}, 404), Failure({}, 500)}

\* const EXCHANGES = [...]
ExchangePool == <<"crypto", "AU", "BR", "CA", "CH">>
Exchanges == SubSeq(ExchangePool, 1, MaxExchanges)
PoolIndex(e) == CHOOSE k \in DOMAIN ExchangePool : ExchangePool[k] = e
DriverCatalog == MkCatalog(<<<<"A">>, <<"B">>>>)

\* main() over a list of exchanges: the file of each one is missing, malformed
\* or a catalog
InitDriver ==
  /\ variant \in Variants
  /\ exchange = Exchanges[1]
  /\ todo = Tail(Exchanges)
  /\ \E files \in [DOMAIN Exchanges -> {Missing, Malformed, Stored(DriverCatalog)}] :
        /\ file = files[1]
        /\ disk = [e \in {Exchanges[k] : k \in DOMAIN Exchanges} |->
                     [file |-> files[PoolIndex(e)], arts |-> EmptyStore(DriverCatalog)]]
  /\ arts = EmptyStore(DriverCatalog)
  /\ budget = DriverFaults
  /\ oracle = [fixed |-> FALSE, of |-> <<>>, raws |-> Sample, metered |-> TRUE]
  /\ FreshRun

\* the identifiers a run on these records can ask the provider for
Asked(v, ex, recs) ==
  IF v = "rewrite" /\ ex = "crypto" THEN Names(recs) ELSE SymbolsOf(recs)

\* the script is run twice on one exchange, and the provider has one answer
\* for each identifier
InitTwice ==
  /\ \E run \in Runs : variant = run[1] /\ exchange = run[2]
  /\ todo = <<exchange>>
  /\ \E ss \in NarrowLists :
        /\ file \in {Missing, Stored(MkCatalog(ss))}
        /\ arts = EmptyStore(MkCatalog(ss))
        /\ \E answer \in [Asked(variant, exchange, MkCatalog(ss)) -> Sample] :
              oracle = [fixed |-> TRUE, of |-> answer, raws |-> Sample,
                        metered |-> FALSE]
  /\ disk = [e \in {exchange} |-> [file |-> file, arts |-> arts]]
  /\ budget = 0
  /\ FreshRun

\* a series, HTTP 404, HTTP 500: one answer for each way a runner's loop can
\* go on (an empty series takes the way of the 404 or of the 500 in every loop)
Outcomes == {[ok |-> TRUE, quotes |-> 2], Failure({}, 404), Failure({}, 500)}

\* one exchange, and a provider that may fail every fetch, without end
InitLive ==
  /\ \E run \in Runs : variant = run[1] /\ exchange = run[2]
  /\ \E ss \in NarrowLists :
        /\ file \in {Missing, Stored(MkCatalog(ss))}
        /\ arts = EmptyStore(MkCatalog(ss))
  /\ todo = <<>>
  /\ disk = <<>>
  /\ budget = 0
  /\ oracle = [fixed |-> FALSE, of |-> <<>>, raws |-> Outcomes, metered |-> FALSE]
  /\ FreshRun


----------------------------------------------------------------------------
(* Pieces shared by the runners *)

Idx == DOMAIN pc
InFlight == {i \in Idx : pc[i] \notin {"queued", "done"}}
ResultOf(i, st) == [symbol |-> sym[i], status |-> st]

\* the provider answers; a non-success answer uses up the model's budget
Answers(s) ==
  IF oracle.fixed THEN {oracle.of[s]}
  ELSE {raw \in oracle.raws : (IsFault(raw) /\ oracle.metered) => budget > 0}
Spend(raw) ==
  budget' = IF IsFault(raw) /\ ~oracle.fixed /\ oracle.metered
              THEN budget - 1 ELSE budget

\* a backoff wait is counted when the attempt goes to sleep
CountWait(i) ==
  waits' = [waits EXCEPT ![i] = IF pc'[i] = "waiting" THEN waits[i] + 1 ELSE waits[i]]

\* variant of Removed that drops the symbols whose attempts were exhausted
RemovedFailed(res) ==
  {res[k].symbol : k \in {j \in DOMAIN res : res[j].status \in {"404", "failed"}}}

\* const removed = results.filter(r => r.status === '404').map(r => r.symbol)
Removed(res) == {res[k].symbol : k \in {j \in DOMAIN res : res[j].status = "404"}}

\* assets.filter(a => !removed.includes(a.symbol))
Keep(recs, removed) == SelectSeq(recs, LAMBDA a : a.symbol \notin removed)

\* variant of Reconcile that writes the file whether or not a record was dropped
ReconcileAlwaysWriting(res) ==
  /\ results' = res
  /\ phase' = "returned"
  /\ assets' = Keep(assets, Removed(res))
  /\ file' = Stored(Keep(assets, Removed(res)))
  /\ writes' = writes + 1

\* the tail of processExchange / processExchangeSafely: drop the 404s, write
\* the file if any was dropped, return the results
Reconcile(res) ==
  /\ results' = res
  /\ phase' = "returned"
  /\ IF Removed(res) # {}
       THEN /\ assets' = Keep(assets, Removed(res))
            /\ file' = Stored(Keep(assets, Removed(res)))
            /\ writes' = writes + 1
       ELSE UNCHANGED <<assets, file, writes>>

\* fs.existsSync(fileName) / JSON.parse(fs.readFileSync(fileName))
Load ==
  /\ phase = "init"
  /\ UNCHANGED <<drv, variant, exchange, arts0, arts, budget>>
  /\ IF ~file.exists
       THEN /\ results' = <<>>
            /\ phase' = "returned"
            /\ UNCHANGED <<file, catalog0, assets, pc, attempt, sym, status, last,
                           calls, rwCalls, slept, nf, nd, wrote, writes, waits>>
       ELSE IF ~file.valid
       \* JSON.parse throws; neither processExchange nor main catches it
       THEN /\ phase' = "crashed"
            /\ UNCHANGED <<file, catalog0, assets, pc, attempt, sym, status, last,
                           calls, rwCalls, slept, nf, nd, wrote, writes, waits,
                           results>>
       ELSE LET recs == file.recs
                n == Len(recs)
                seqStart == variant = "importer" /\ n > 0
            IN /\ catalog0' = recs
               /\ attempt' = [i \in 1..n |-> 0]
               /\ sym' = [i \in 1..n |-> recs[i].symbol]
               /\ status' = [i \in 1..n |-> "none"]
               /\ last' = [i \in 1..n |-> "none"]
               /\ rwCalls' = [i \in 1..n |-> 0]
               /\ slept' = [i \in 1..n |-> 0]
               /\ nf' = [i \in 1..n |-> FALSE]
               /\ nd' = [i \in 1..n |-> FALSE]
               /\ wrote' = [i \in 1..n |-> FALSE]
               /\ waits' = [i \in 1..n |-> 0]
               /\ pc' = [i \in 1..n |-> IF seqStart /\ i = 1 THEN "fetching" ELSE "queued"]
               /\ calls' = [i \in 1..n |-> IF seqStart /\ i = 1 THEN 1 ELSE 0]
               /\ IF variant = "importer" /\ n = 0
                    THEN /\ assets' = recs
                         /\ results' = <<>>
                         /\ phase' = "returned"
                         /\ UNCHANGED <<file, writes>>
                    ELSE /\ assets' = recs
                         /\ phase' = "running"
                         /\ UNCHANGED <<file, results, writes>>

\* variant of Start without the limiter's bound
StartUnbounded(i) ==
  /\ phase = "running"
  /\ variant # "importer"
  /\ pc[i] = "queued"
  /\ \A j \in Idx : j < i => pc[j] # "queued"
  /\ pc' = [pc EXCEPT ![i] = "fetching"]
  /\ calls' = [calls EXCEPT ![i] = 1]
  /\ UNCHANGED waits
  /\ UNCHANGED <<drv, variant, exchange, arts0, file, catalog0, assets, arts, phase, attempt,
                 sym, status, last, rwCalls, slept, nf, nd, wrote, results,
                 writes, budget>>

\* limit(async () => ...): p-limit starts the queued tasks first come, first
\* served, while fewer than `concurrency` are running
Start(i) ==
  /\ phase = "running"
  /\ variant # "importer"
  /\ pc[i] = "queued"
  /\ \A j \in Idx : j < i => pc[j] # "queued"
  /\ Cardinality(InFlight) < Concurrency
  /\ pc' = [pc EXCEPT ![i] = "fetching"]
  /\ calls' = [calls EXCEPT ![i] = 1]
  /\ UNCHANGED waits
  /\ UNCHANGED <<drv, variant, exchange, arts0, file, catalog0, assets, arts, phase, attempt,
                 sym, status, last, rwCalls, slept, nf, nd, wrote, results,
                 writes, budget>>

\* await Promise.all(...) resolves once every task has returned
Settle ==
  /\ phase = "running"
  /\ variant # "importer"
  /\ \A i \in Idx : pc[i] = "done"
  /\ Reconcile([i \in Idx |-> ResultOf(i, status[i])])
  /\ UNCHANGED waits
  /\ UNCHANGED <<drv, variant, exchange, arts0, catalog0, arts, pc, attempt, sym, status,
                 last, calls, rwCalls, slept, nf, nd, wrote, budget>>


----------------------------------------------------------------------------
(* fetch_stocks_all_exchanges.mjs *)

\* variant of PoolNextAttempt whose loop goes round once more
PoolNextAttemptOneMore(i) ==
  /\ attempt' = [attempt EXCEPT ![i] = attempt[i] + 1]
  /\ IF attempt[i] + 1 <= MaxAttempts
       THEN /\ pc' = [pc EXCEPT ![i] = "fetching"]
            /\ calls' = [calls EXCEPT ![i] = calls[i] + 1]
            /\ UNCHANGED status
       ELSE /\ pc' = [pc EXCEPT ![i] = "done"]
            /\ status' = [status EXCEPT ![i] = "failed"]
            /\ UNCHANGED calls

\* attempt++ ; attempt < 3 ? fetch again : return { status: 'failed' }
PoolNextAttempt(i) ==
  /\ attempt' = [attempt EXCEPT ![i] = attempt[i] + 1]
  /\ IF attempt[i] + 1 < MaxAttempts
       THEN /\ pc' = [pc EXCEPT ![i] = "fetching"]
            /\ calls' = [calls EXCEPT ![i] = calls[i] + 1]
            /\ UNCHANGED status
       ELSE /\ pc' = [pc EXCEPT ![i] = "done"]
            /\ status' = [status EXCEPT ![i] = "failed"]
            /\ UNCHANGED calls

\* variant of AllFetchReturn without the try/catch around the fetch: the
\* rethrown error rejects Promise.all, processExchange and main
AllFetchReturnEscaping(i, raw) ==
  /\ phase = "running"
  /\ variant = "all"
  /\ pc[i] = "fetching"
  /\ raw \in Answers(sym[i])
  /\ Spend(raw)
  /\ LET st == ClassifyAll(raw)
     IN /\ arts' = WriteArtifact(arts, sym[i], st)
        /\ last' = [last EXCEPT ![i] = st]
        /\ nd' = [nd EXCEPT ![i] = nd[i] \/ st = "noData"]
        /\ nf' = [nf EXCEPT ![i] = nf[i] \/ st = "404"]
        /\ wrote' = [wrote EXCEPT ![i] = wrote[i] \/ st = "success"]
        /\ pc' = [pc EXCEPT ![i] = "done"]
        /\ slept' = [slept EXCEPT ![i] = 0]
        /\ IF st = "thrown"
             THEN /\ phase' = "crashed"
                  /\ UNCHANGED status
             ELSE /\ status' = [status EXCEPT ![i] = st]
                  /\ UNCHANGED phase
  /\ CountWait(i)
  /\ UNCHANGED <<drv, variant, exchange, arts0, file, catalog0, assets, attempt, sym,
                 calls, rwCalls, results, writes>>

\* try { return await fetchData(asset.symbol, outputDir) } catch { wait 2 s }
AllFetchReturn(i, raw) ==
  /\ phase = "running"
  /\ variant = "all"
  /\ pc[i] = "fetching"
  /\ raw \in Answers(sym[i])
  /\ Spend(raw)
  /\ LET st == ClassifyAll(raw)
     IN /\ arts' = WriteArtifact(arts, sym[i], st)
        /\ last' = [last EXCEPT ![i] = st]
        /\ nd' = [nd EXCEPT ![i] = nd[i] \/ st = "noData"]
        /\ nf' = [nf EXCEPT ![i] = nf[i] \/ st = "404"]
        /\ wrote' = [wrote EXCEPT ![i] = wrote[i] \/ st = "success"]
        /\ IF st = "thrown"
             THEN /\ pc' = [pc EXCEPT ![i] = "waiting"]
                  /\ slept' = [slept EXCEPT ![i] = RetryDelayMs]
                  /\ UNCHANGED status
             ELSE /\ pc' = [pc EXCEPT ![i] = "done"]
                  /\ status' = [status EXCEPT ![i] = st]
                  /\ slept' = [slept EXCEPT ![i] = 0]
  /\ CountWait(i)
  /\ UNCHANGED <<drv, variant, exchange, arts0, file, catalog0, assets, phase, attempt, sym,
                 calls, rwCalls, results, writes>>

\* the 2 s timer of the catch block fires
AllWaitDone(i) ==
  /\ phase = "running"
  /\ variant = "all"
  /\ pc[i] = "waiting"
  /\ PoolNextAttempt(i)
  /\ UNCHANGED waits
  /\ UNCHANGED <<drv, variant, exchange, arts0, file, catalog0, assets, arts, phase, sym,
                 last, rwCalls, slept, nf, nd, wrote, results, writes, budget>>

----------------------------------------------------------------------------
(* unnamed/part_001, second script: no rewrite *)

\* variant of PlainFetchReturn that fetches again at once until the fetch
\* succeeds, without counting the attempt
PlainFetchReturnUntilSuccess(i, raw) ==
  /\ phase = "running"
  /\ variant = "plain"
  /\ pc[i] = "fetching"
  /\ raw \in Answers(sym[i])
  /\ Spend(raw)
  /\ LET st == ClassifyPlain(raw)
     IN /\ arts' = WriteArtifact(arts, sym[i], st)
        /\ last' = [last EXCEPT ![i] = st]
        /\ nd' = [nd EXCEPT ![i] = nd[i] \/ st = "noData"]
        /\ nf' = [nf EXCEPT ![i] = nf[i] \/ st = "404"]
        /\ wrote' = [wrote EXCEPT ![i] = wrote[i] \/ st = "success"]
        /\ IF st = "success"
             THEN /\ pc' = [pc EXCEPT ![i] = "done"]
                  /\ status' = [status EXCEPT ![i] = "success"]
                  /\ slept' = [slept EXCEPT ![i] = 0]
             ELSE /\ pc' = pc
                  /\ slept' = [slept EXCEPT ![i] = 0]
                  /\ UNCHANGED status
  /\ CountWait(i)
  /\ UNCHANGED <<drv, variant, exchange, arts0, file, catalog0, assets, phase, attempt, sym,
                 calls, rwCalls, results, writes>>

\* const result = await fetchData(symbol, outputDir) returns
PlainFetchReturn(i, raw) ==
  /\ phase = "running"
  /\ variant = "plain"
  /\ pc[i] = "fetching"
  /\ raw \in Answers(sym[i])
  /\ Spend(raw)
  /\ LET st == ClassifyPlain(raw)
     IN /\ arts' = WriteArtifact(arts, sym[i], st)
        /\ last' = [last EXCEPT ![i] = st]
        /\ nd' = [nd EXCEPT ![i] = nd[i] \/ st = "noData"]
        /\ nf' = [nf EXCEPT ![i] = nf[i] \/ st = "404"]
        /\ wrote' = [wrote EXCEPT ![i] = wrote[i] \/ st = "success"]
        /\ IF st = "success"
             THEN /\ pc' = [pc EXCEPT ![i] = "done"]
                  /\ status' = [status EXCEPT ![i] = "success"]
                  /\ slept' = [slept EXCEPT ![i] = 0]
             ELSE /\ pc' = [pc EXCEPT ![i] = "waiting"]
                  /\ slept' = [slept EXCEPT ![i] = RetryDelayMs]
                  /\ UNCHANGED status
  /\ CountWait(i)
  /\ UNCHANGED <<drv, variant, exchange, arts0, file, catalog0, assets, phase, attempt, sym,
                 calls, rwCalls, results, writes>>

\* the 2 s timer of the loop fires
PlainWaitDone(i) ==
  /\ phase = "running"
  /\ variant = "plain"
  /\ pc[i] = "waiting"
  /\ PoolNextAttempt(i)
  /\ UNCHANGED waits
  /\ UNCHANGED <<drv, variant, exchange, arts0, file, catalog0, assets, arts, phase, sym,
                 last, rwCalls, slept, nf, nd, wrote, results, writes, budget>>


----------------------------------------------------------------------------
(* unnamed/part_001, first script: crypto symbols are retried as <symbol>-USD *)

\* variant of RewriteApplies that forgets `attempt === 0`
RewriteAppliesEveryAttempt(ex, att, st, s) ==
  ex = "crypto" /\ st = "404" /\ ~EndsWithUSD(s)

RewriteApplies(ex, att, st, s) ==
  ex = "crypto" /\ att = 0 /\ st = "404" /\ ~EndsWithUSD(s)

\* assets = assets.filter(a => a.symbol !== symbol);
\* assets.push({ ...asset, symbol: newSymbol })
\* variant of Rewritten that pushes the renamed record without the filter
RewrittenKeepingOld(recs, rec, new) ==
  Append(recs, [rec EXCEPT !.symbol = new])

Rewritten(recs, rec, new) ==
  Append(SelectSeq(recs, LAMBDA a : a.symbol # rec.symbol),
         [rec EXCEPT !.symbol = new])

RwFetchReturn(i, raw) ==
  /\ phase = "running"
  /\ variant = "rewrite"
  /\ pc[i] = "fetching"
  /\ raw \in Answers(sym[i])
  /\ Spend(raw)
  /\ LET st == ClassifyRewrite(raw)
         rw == RewriteApplies(exchange, attempt[i], st, sym[i])
     IN /\ arts' = WriteArtifact(arts, sym[i], st)
        /\ last' = [last EXCEPT ![i] = st]
        /\ nd' = [nd EXCEPT ![i] = nd[i] \/ st = "noData"]
        /\ nf' = [nf EXCEPT ![i] = nf[i] \/ (st = "404" /\ ~rw)]
        /\ wrote' = [wrote EXCEPT ![i] = wrote[i] \/ st = "success"]
        /\ IF st = "success"
             THEN /\ pc' = [pc EXCEPT ![i] = "done"]
                  /\ status' = [status EXCEPT ![i] = "success"]
                  /\ slept' = [slept EXCEPT ![i] = 0]
                  /\ UNCHANGED rwCalls
             ELSE IF rw
             THEN /\ pc' = [pc EXCEPT ![i] = "rewriting"]
                  /\ rwCalls' = [rwCalls EXCEPT ![i] = rwCalls[i] + 1]
                  /\ slept' = [slept EXCEPT ![i] = 0]
                  /\ UNCHANGED status
             ELSE /\ pc' = [pc EXCEPT ![i] = "waiting"]
                  /\ slept' = [slept EXCEPT ![i] = RetryDelayMs]
                  /\ UNCHANGED <<status, rwCalls>>
  /\ CountWait(i)
  /\ UNCHANGED <<drv, variant, exchange, arts0, file, catalog0, assets, phase, attempt, sym,
                 calls, results, writes>>

\* variant of RwRewriteReturn that rewrites the catalog as it was loaded, not
\* the `assets` the other attempts have changed since
RwRewriteReturnStale(i, raw) ==
  /\ phase = "running"
  /\ variant = "rewrite"
  /\ pc[i] = "rewriting"
  /\ raw \in Answers(AppendUSD(sym[i]))
  /\ Spend(raw)
  /\ LET st == ClassifyRewrite(raw)
         new == AppendUSD(sym[i])
         fetched == WriteArtifact(arts, new, st)
     IN /\ last' = [last EXCEPT ![i] = st]
        /\ wrote' = [wrote EXCEPT ![i] = wrote[i] \/ st = "success"]
        /\ IF st = "success"
             THEN /\ assets' = Rewritten(catalog0, catalog0[i], new)
                  /\ file' = Stored(Rewritten(catalog0, catalog0[i], new))
                  /\ writes' = writes + 1
                  /\ arts' = RenameArtifact(fetched, sym[i], new)
                  /\ sym' = [sym EXCEPT ![i] = new]
                  /\ status' = [status EXCEPT ![i] = "success"]
                  /\ pc' = [pc EXCEPT ![i] = "done"]
                  /\ slept' = [slept EXCEPT ![i] = 0]
                  /\ UNCHANGED nf
             ELSE /\ arts' = fetched
                  /\ nf' = [nf EXCEPT ![i] = TRUE]
                  /\ pc' = [pc EXCEPT ![i] = "waiting"]
                  /\ slept' = [slept EXCEPT ![i] = RetryDelayMs]
                  /\ UNCHANGED <<assets, file, writes, sym, status>>
  /\ CountWait(i)
  /\ UNCHANGED <<drv, variant, exchange, arts0, catalog0, phase, attempt, calls, rwCalls,
                 nd, results>>

\* const retryResult = await fetchData(newSymbol, outputDir) returns
RwRewriteReturn(i, raw) ==
  /\ phase = "running"
  /\ variant = "rewrite"
  /\ pc[i] = "rewriting"
  /\ raw \in Answers(AppendUSD(sym[i]))
  /\ Spend(raw)
  /\ LET st == ClassifyRewrite(raw)
         new == AppendUSD(sym[i])
         fetched == WriteArtifact(arts, new, st)
     IN /\ last' = [last EXCEPT ![i] = st]
        /\ wrote' = [wrote EXCEPT ![i] = wrote[i] \/ st = "success"]
        /\ IF st = "success"
             THEN /\ assets' = Rewritten(assets, catalog0[i], new)
                  /\ file' = Stored(Rewritten(assets, catalog0[i], new))
                  /\ writes' = writes + 1
                  /\ arts' = RenameArtifact(fetched, sym[i], new)
                  /\ sym' = [sym EXCEPT ![i] = new]
                  /\ status' = [status EXCEPT ![i] = "success"]
                  /\ pc' = [pc EXCEPT ![i] = "done"]
                  /\ slept' = [slept EXCEPT ![i] = 0]
                  /\ UNCHANGED nf
             ELSE /\ arts' = fetched
                  /\ nf' = [nf EXCEPT ![i] = TRUE]
                  /\ pc' = [pc EXCEPT ![i] = "waiting"]
                  /\ slept' = [slept EXCEPT ![i] = RetryDelayMs]
                  /\ UNCHANGED <<assets, file, writes, sym, status>>
  /\ CountWait(i)
  /\ UNCHANGED <<drv, variant, exchange, arts0, catalog0, phase, attempt, calls, rwCalls,
                 nd, results>>

RwWaitDone(i) ==
  /\ phase = "running"
  /\ variant = "rewrite"
  /\ pc[i] = "waiting"
  /\ PoolNextAttempt(i)
  /\ UNCHANGED waits
  /\ UNCHANGED <<drv, variant, exchange, arts0, file, catalog0, assets, arts, phase, sym,
                 last, rwCalls, slept, nf, nd, wrote, results, writes, budget>>

----------------------------------------------------------------------------
(* importer.mjs and unnamed/part_000: one symbol at a time *)

\* attempt++ ; attempt < 3 ? fetch again : leave the loop, results.push(...),
\* await delay(500 + Math.random() * 1500)
\* variant of SeqNextAttempt that records no result for an exhausted symbol
SeqNextAttemptDroppingFailed(i) ==
  /\ attempt' = [attempt EXCEPT ![i] = attempt[i] + 1]
  /\ IF attempt[i] + 1 < MaxAttempts
       THEN /\ pc' = [pc EXCEPT ![i] = "fetching"]
            /\ calls' = [calls EXCEPT ![i] = calls[i] + 1]
            /\ UNCHANGED <<status, results>>
       ELSE /\ pc' = [pc EXCEPT ![i] = "pause"]
            /\ status' = [status EXCEPT ![i] = "failed"]
            /\ UNCHANGED <<calls, results>>

SeqNextAttempt(i) ==
  /\ attempt' = [attempt EXCEPT ![i] = attempt[i] + 1]
  /\ IF attempt[i] + 1 < MaxAttempts
       THEN /\ pc' = [pc EXCEPT ![i] = "fetching"]
            /\ calls' = [calls EXCEPT ![i] = calls[i] + 1]
            /\ UNCHANGED <<status, results>>
       ELSE /\ pc' = [pc EXCEPT ![i] = "pause"]
            /\ status' = [status EXCEPT ![i] = "failed"]
            /\ results' = Append(results, ResultOf(i, "failed"))
            /\ UNCHANGED calls

\* the backoff a classified failure is given before the loop goes round
\* variant of BackoffMs in which an 'error' is retried at once
BackoffMsNoErrorDelay(st, r) ==
  CASE st = "rateLimited" -> Scaled(RateLimitBaseMs, RateLimitSpanMs, r)
    [] OTHER              -> 0

BackoffMs(st, r) ==
  CASE st = "rateLimited" -> Scaled(RateLimitBaseMs, RateLimitSpanMs, r)
    [] st = "error"       -> Scaled(ErrorBaseMs, ErrorSpanMs, r)
    [] OTHER              -> 0

SeqFetchReturn(i, raw, r) ==
  /\ phase = "running"
  /\ variant = "importer"
  /\ pc[i] = "fetching"
  /\ raw \in Answers(sym[i])
  /\ Spend(raw)
  /\ LET st == ClassifyImporter(raw)
     IN /\ arts' = WriteArtifact(arts, sym[i], st)
        /\ last' = [last EXCEPT ![i] = st]
        /\ nd' = [nd EXCEPT ![i] = nd[i] \/ st = "noData"]
        /\ nf' = [nf EXCEPT ![i] = nf[i] \/ st = "404"]
        /\ wrote' = [wrote EXCEPT ![i] = wrote[i] \/ st = "success"]
        /\ IF st = "success"
             THEN /\ status' = [status EXCEPT ![i] = "success"]
                  /\ results' = Append(results, ResultOf(i, "success"))
                  /\ pc' = [pc EXCEPT ![i] = "pause"]
                  /\ slept' = [slept EXCEPT ![i] = 0]
                  /\ UNCHANGED <<attempt, calls>>
             ELSE IF BackoffMs(st, r) > 0
             THEN /\ pc' = [pc EXCEPT ![i] = "waiting"]
                  /\ slept' = [slept EXCEPT ![i] = BackoffMs(st, r)]
                  /\ UNCHANGED <<attempt, calls, status, results>>
             ELSE /\ slept' = [slept EXCEPT ![i] = 0]
                  /\ SeqNextAttempt(i)
  /\ CountWait(i)
  /\ UNCHANGED <<drv, variant, exchange, arts0, file, catalog0, assets, phase, sym, rwCalls,
                 writes>>

\* await delay(waitTime) is over
SeqWaitDone(i) ==
  /\ phase = "running"
  /\ variant = "importer"
  /\ pc[i] = "waiting"
  /\ SeqNextAttempt(i)
  /\ UNCHANGED waits
  /\ UNCHANGED <<drv, variant, exchange, arts0, file, catalog0, assets, arts, phase, sym,
                 last, rwCalls, slept, nf, nd, wrote, writes, budget>>

\* the pause between two symbols is over: the next symbol, or the tail
SeqPauseDone(i) ==
  /\ phase = "running"
  /\ variant = "importer"
  /\ pc[i] = "pause"
  /\ IF i < Len(catalog0)
       THEN /\ pc' = [pc EXCEPT ![i] = "done", ![i + 1] = "fetching"]
            /\ calls' = [calls EXCEPT ![i + 1] = 1]
            /\ UNCHANGED <<file, assets, phase, results, writes>>
       ELSE /\ pc' = [pc EXCEPT ![i] = "done"]
            /\ Reconcile(results)
            /\ UNCHANGED calls
  /\ UNCHANGED waits
  /\ UNCHANGED <<drv, variant, exchange, arts0, catalog0, arts, attempt, sym, status, last,
                 rwCalls, slept, nf, nd, wrote, budget>>

----------------------------------------------------------------------------
(* main *)

\* for (const exchange of EXCHANGES) { await processExchange(exchange) }: the
\* run has returned; the loop takes the next exchange, or main ends
NextExchange ==
  /\ phase = "returned"
  /\ log' = Append(log, [exchange |-> exchange, file |-> file,
                         results |-> results, writes |-> writes])
  /\ UNCHANGED <<variant, oracle, budget>>
  /\ IF todo = <<>>
       THEN /\ phase' = "exit"
            /\ UNCHANGED <<exchange, todo, disk, file, arts, arts0, catalog0, assets,
                           pc, attempt, sym, status, last, calls, rwCalls, slept,
                           nf, nd, wrote, results, writes, waits>>
       ELSE /\ exchange' = Head(todo)
            /\ todo' = Tail(todo)
            /\ disk' = [disk EXCEPT ![exchange] = [file |-> file, arts |-> arts]]
            /\ file' = disk'[Head(todo)].file
            /\ arts' = disk'[Head(todo)].arts
            /\ arts0' = arts'
            /\ catalog0' = <<>>
            /\ assets' = <<>>
            /\ phase' = "init"
            /\ pc' = <<>>
            /\ attempt' = <<>>
            /\ sym' = <<>>
            /\ status' = <<>>
            /\ last' = <<>>
            /\ calls' = <<>>
            /\ rwCalls' = <<>>
            /\ slept' = <<>>
            /\ nf' = <<>>
            /\ nd' = <<>>
            /\ wrote' = <<>>
            /\ results' = <<>>
            /\ writes' = 0
            /\ waits' = <<>>

----------------------------------------------------------------------------

Next ==
  \/ Load
  \/ NextExchange
  \/ Settle
  \/ \E i \in Idx : Start(i)
  \/ \E i \in Idx : AllWaitDone(i)
  \/ \E i \in Idx : PlainWaitDone(i)
  \/ \E i \in Idx : RwWaitDone(i)
  \/ \E i \in Idx : SeqWaitDone(i)
  \/ \E i \in Idx : SeqPauseDone(i)
  \/ \E i \in Idx, raw \in Raw : AllFetchReturn(i, raw)
  \/ \E i \in Idx, raw \in Raw : PlainFetchReturn(i, raw)
  \/ \E i \in Idx, raw \in Raw : RwFetchReturn(i, raw)
  \/ \E i \in Idx, raw \in Raw : RwRewriteReturn(i, raw)
  \/ \E i \in Idx, raw \in Raw, r \in Rand : SeqFetchReturn(i, raw, r)

Spec == Init /\ [][Next]_vars
SpecWide == InitWide /\ [][Next]_vars
SpecDriver == InitDriver /\ [][Next]_vars
SpecTwice == InitTwice /\ [][Next]_vars

\* every fetch and every timer completes, and the event loop runs whatever
\* is ready: a step that can be taken is not put off forever
SpecLive == InitLive /\ [][Next]_vars /\ WF_vars(Next)


----------------------------------------------------------------------------
(* Properties *)

Returned == phase = "returned" /\ file.exists
Retryable == {"rateLimited", "error", "thrown"}
Rewrote(i) == status[i] = "success" /\ sym[i] # catalog0[i].symbol

\* C1: after a run of the sequential importer or of the all-exchanges runner
\* the catalog file holds the input records minus exactly those whose symbol
\* was classified '404'.
C1_NotFoundRemoved ==
  (Returned /\ variant \in {"importer", "all"})
    => file.recs = SelectSeq(catalog0, LAMBDA a : ~nf[a.meta])

\* C2: an attempt issues at most MaxAttempts fetches for its symbol and at
\* most one for the rewritten symbol.
C2_FetchBound ==
  \A i \in Idx : calls[i] <= MaxAttempts /\ rwCalls[i] <= 1

C2_Witness ==
  \E i \in Idx : calls[i] = MaxAttempts /\ rwCalls[i] = 1

\* C3: never more than Concurrency attempts are started and not yet returned.
C3_InFlightBound == Cardinality(InFlight) <= Concurrency

C3_Witness ==
  /\ variant # "importer"
  /\ Cardinality(InFlight) = Concurrency
  /\ \E i \in Idx : pc[i] = "queued"

\* C4: once a symbol is classified '404' (and no rewrite rescued it) its
\* attempt is over, with status '404'.
C4_NotFoundTerminal ==
  \A i \in Idx : nf[i] => (pc[i] \in {"done", "pause"} /\ status[i] = "404")

\* C5: a fetch that follows a fetch classified rate-limited or failed (or
\* rethrown) is preceded by a backoff of nonzero length.
C5_BackoffBeforeRetry ==
  \A i \in Idx : (pc[i] = "fetching" /\ last[i] \in Retryable) => slept[i] > 0

C5_Witness ==
  \E i \in Idx :
    /\ pc[i] = "fetching"
    /\ calls[i] = MaxAttempts
    /\ last[i] = "rateLimited"
    /\ slept[i] >= RateLimitBaseMs

\* C6: no backoff is waited after a fetch classified '404' or 'success'.
C6_NoWaitAfterTerminal ==
  \A i \in Idx : pc[i] = "waiting" => (~nf[i] /\ last[i] # "success")

\* C7: after a fetch classified 'noData' the attempt is over, it has written
\* no artifact, and the record is still in the catalog when the run returns.
C7_NoDataTerminal ==
  \A i \in Idx :
    nd[i] => /\ pc[i] \in {"done", "pause"}
             /\ ~wrote[i]
             /\ Returned => \E k \in DOMAIN file.recs : file.recs[k] = catalog0[i]

\* C8: after the run, a record that succeeded under its rewritten symbol is in
\* the catalog under the new symbol with its metadata, no record bears the old
\* symbol, and an artifact that was stored under the old name is stored under
\* the new name only (or replaced there by the new symbol's own fresh fetch).
C8_RewriteReplaces ==
  Returned =>
    \A i \in Idx :
      Rewrote(i) =>
        LET old == catalog0[i].symbol
            new == sym[i]
        IN /\ new = AppendUSD(old)
           /\ \E k \in DOMAIN file.recs :
                file.recs[k] = [catalog0[i] EXCEPT !.symbol = new]
           /\ \A k \in DOMAIN file.recs : file.recs[k].symbol # old
           /\ arts0[old] # NoFile =>
                /\ arts[old] = NoFile
                /\ \/ arts[new] = arts0[old]
                   \/ \E j \in Idx : catalog0[j].symbol = new /\ wrote[j]

C8_Witness ==
  /\ Returned
  /\ \E i \in Idx :
       /\ Rewrote(i)
       /\ arts0[catalog0[i].symbol] # NoFile
       /\ arts[sym[i]] = arts0[catalog0[i].symbol]

\* C9: the catalog file written by a run that started from a catalog without
\* duplicate symbols has no two records with the same symbol.
C9_NoDuplicateSymbols ==
  Returned => NoDup([k \in DOMAIN file.recs |-> file.recs[k].symbol])

\* C10: the returned results hold one result per record of the input catalog,
\* in a terminal status, under the record's symbol or its rewritten form.
C10_OneResultPerRecord ==
  Returned =>
    /\ Len(results) = Len(catalog0)
    /\ \A i \in DOMAIN results :
         /\ i \in DOMAIN catalog0
         /\ results[i].symbol \in {catalog0[i].symbol, AppendUSD(catalog0[i].symbol)}
         /\ results[i].status \in {"success", "noData", "404", "failed"}

C10_Witness ==
  /\ Returned
  /\ Len(results) >= 2
  /\ \E i, j \in DOMAIN results :
       /\ results[i].status = "failed"
       /\ results[j].status = "success"

\* what a runner can record for a symbol
Terminal == {"success", "noData", "404", "failed"}
Processed == [k \in DOMAIN log |-> log[k].exchange]

\* C11: no provider failure stops the work. A run stops early only on a
\* catalog file that cannot be parsed; a run that returns has recorded a
\* terminal result for every record of its catalog; and main stops only after
\* it has processed every exchange of its list, in order.
C11_FailureContained ==
  /\ phase = "crashed" => (file.exists /\ ~file.valid)
  /\ Returned =>
       /\ Len(results) = Len(catalog0)
       /\ \A k \in DOMAIN results : results[k].status \in Terminal
  /\ phase = "exit" => Processed = Exchanges
  /\ (~ENABLED Next) => phase \in {"exit", "crashed"}

C11_Witness ==
  /\ phase = "exit"
  /\ Len(log) > 1
  /\ \E j, k \in DOMAIN log[1].results :
        /\ log[1].results[j].status = "failed"
        /\ log[1].results[k].status = "success"
  /\ log[2].results # <<>>

\* C12: a catalog file that cannot be parsed stops the run of its exchange
\* only: main does not end on it while exchanges of its list are left.
C12_MalformedSkipped ==
  (file.exists /\ ~file.valid /\ ~ENABLED Next) => todo = <<>>

\* C13: the catalog file is written at most once in a run, and only when
\* every attempt of the run has returned.
C13_WriteAfterAttempts ==
  /\ writes <= 1
  /\ writes > 0 => \A i \in Idx : pc[i] = "done"

\* C14: with one fixed provider answer per identifier, a second run on the
\* catalog the first run left never writes the catalog file: at every moment
\* of the second run the file is the one the first run left.
C14_SecondRunIdle ==
  (oracle.fixed /\ Len(log) = 1 /\ phase # "exit") =>
    (file = log[1].file /\ writes = 0)

C14_Witness ==
  /\ oracle.fixed
  /\ Len(log) = 1
  /\ log[1].writes > 0
  /\ phase = "returned"
  /\ results # <<>>

\* the step is the return of a fetch of identifier s, classified 'success'
FetchedOk(s) ==
  \E i \in Idx :
    /\ last'[i] = "success"
    /\ \/ pc[i] = "fetching" /\ pc'[i] # "fetching" /\ sym[i] = s
       \/ pc[i] = "rewriting" /\ pc'[i] # "rewriting" /\ AppendUSD(sym[i]) = s

\* C15: within a run the artifact store changes only in a step where a fetch
\* returned a non-empty series, and the artifact stored under a name gets
\* another content only in a step where the fetch of that very identifier did.
C15_FailedFetchKeepsArtifacts ==
  [][log' = log =>
       /\ arts' # arts => \E s \in DOMAIN arts : FetchedOk(s)
       /\ \A s \in DOMAIN arts :
            (arts[s] # NoFile /\ arts'[s] # NoFile /\ arts'[s] # arts[s])
              => FetchedOk(s)]_vars

C15_Witness ==
  \E i \in Idx :
    /\ status[i] = "failed"
    /\ last[i] \in {"noData", "404", "rateLimited", "error", "thrown"}
    /\ arts0[sym[i]] # NoFile
    /\ arts = arts0

\* the attempt of record i is over and each of its fetches was classified
\* 'success' or as a retryable failure
OnlyRetryable(i) == pc[i] \in {"done", "pause"} /\ ~nf[i] /\ ~nd[i]

\* C16: an attempt whose fetches failed retryably k times and then succeeded
\* ends 'success' after k + 1 fetches (at most MaxAttempts) and k backoff
\* waits; an attempt whose fetches all failed retryably ends 'failed' after
\* MaxAttempts fetches.
C16_RetryAccounting ==
  \A i \in Idx :
    OnlyRetryable(i) =>
      /\ status[i] \in {"success", "failed"}
      /\ status[i] = "success" =>
           (calls[i] <= MaxAttempts /\ waits[i] = calls[i] - 1)
      /\ status[i] = "failed" => calls[i] = MaxAttempts

C16_Witness ==
  \E i \in Idx :
    /\ OnlyRetryable(i)
    /\ status[i] = "success"
    /\ last[i] = "success"
    /\ calls[i] = MaxAttempts
    /\ waits[i] = MaxAttempts - 1

\* C17: a backoff is waited only when another fetch follows: no attempt is
\* waiting after its last permitted fetch was classified rate-limited or
\* failed (or rethrown).
C17_NoBackoffAfterLastAttempt ==
  \A i \in Idx :
    (pc[i] = "waiting" /\ last[i] \in Retryable) => attempt[i] + 1 < MaxAttempts

\* C18: the rename that follows a successful rewrite never overwrites an
\* artifact stored under the new name: the series just fetched for the
\* rewritten identifier is still what is stored under it.
C18_RenameKeepsNewArtifact ==
  \A i \in Idx : Rewrote(i) => arts[sym[i]].fresh

C20_NoLostUpdate ==
  variant = "rewrite" =>
    \A i \in Idx :
      Rewrote(i) =>
        /\ \E k \in DOMAIN file.recs : file.recs[k].symbol = sym[i]
        /\ \A k \in DOMAIN file.recs : file.recs[k].symbol # catalog0[i].symbol
        /\ file = Stored(assets)

\* two rewrites, finished in the order opposite to the catalog's
C20_Witness ==
  /\ Returned
  /\ \E i, j \in Idx :
       /\ i < j
       /\ Rewrote(i)
       /\ Rewrote(j)
       /\ sym[i] # sym[j]
       /\ file.recs[1].symbol = sym[j]

\* C21: every run of an exchange terminates: it comes to return its results,
\* one terminal result per record, with no attempt running or queued.
C21_RunTerminates ==
  <>(/\ phase = "returned"
     /\ InFlight = {}
     /\ \A i \in Idx : pc[i] = "done" /\ status[i] \in Terminal
     /\ Len(results) = Len(catalog0))

C21_Witness ==
  /\ phase = "returned"
  /\ Len(results) > 1
  /\ \A i \in Idx : pc[i] = "done"
  /\ \E i \in Idx : status[i] = "failed" /\ calls[i] = MaxAttempts

====
